---- MODULE Spec2Model ----
(***************************************************************************)
(* Model of the asyncio Presto client: PrestoRequest (the transport),      *)
(* PrestoQuery (the query life cycle: execute / fetch / cancel).           *)
(*                                                                         *)
(* Python values are modelled as follows.                                  *)
(*   Optional[T]   None is << >>, a value v is << v >>                     *)
(*   dict          a function from its keys; "k in d" is k \in DOMAIN d    *)
(*   list          a sequence                                              *)
(*   str built by format()/f-string   the sequence of the pieces joined    *)
(* The HTTP session (aiohttp) and the server are the environment: what a   *)
(* request yields is an input of the action that sends it.                 *)
(***************************************************************************)
EXTENDS Integers, Sequences, FiniteSets, TLC

\* Number of PrestoQuery method calls a behaviour makes.
MaxCalls == 4

None == << >>
Some(v) == << v >>

\* Python truthiness of an Optional[str] / Optional[list]: None and the empty
\* value are falsy.
Truthy(opt) == opt # None /\ opt[1] # << >>

\* dict.get(key, default)
Get(d, key, default) == IF key \in DOMAIN d THEN d[key] ELSE default

\* dict.update(other): keys of other are added, its values win.
DictUpdate(d, other) ==
    [k \in (DOMAIN d) \cup (DOMAIN other) |->
        IF k \in DOMAIN other THEN other[k] ELSE d[k]]

EmptyDict == [k \in {} |-> ""]

----------------------------------------------------------------------------
(* Connection parameters of the PrestoRequest under study.                 *)

http_scheme == "http"
host == "coordinator"
port == "8080"
sql == "select 1"

\* f"{self._http_scheme}://{self._host}:{self._port}{path}"
get_url(path) == << http_scheme, "://", host, ":", port >> \o path

\* get_url(constants.URL_STATEMENT_PATH)
statement_url == get_url(<< "/v1/statement" >>)

\* "/v1/presto/{}".format(self.query_id)
CancelPath(id) == << "/v1/presto/", id >>

----------------------------------------------------------------------------
(* The environment: what the HTTP session yields for one request.          *)

\* Continuation URIs the server hands out.
U1 == << "http://coordinator:8080/v1/statement/q/1" >>
U2 == << "http://coordinator:8080/v1/statement/q/2" >>
\* A continuation URI the caller seeds the transport with (QueryContext.next_uri).
U0 == << "http://coordinator:8080/v1/statement/q/0" >>

S1 == [k \in {"state"} |-> "QUEUED"]
S2 == [k \in {"state", "nodes"} |-> IF k = "state" THEN "RUNNING" ELSE "2"]
S3 == [k \in {"queryId", "state"} |-> IF k = "queryId" THEN "stale" ELSE "FINISHED"]

ColsA == << [name |-> "a", type |-> "integer"] >>
ColsB == << [name |-> "a", type |-> "integer"], [name |-> "b", type |-> "varchar"] >>

\* JSON bodies of 2xx responses without an error field.  A key that is not
\* in the domain is absent from the JSON object.
Body(id, st, extra) ==
    [k \in {"id", "stats", "infoUri"} \cup DOMAIN extra |->
        CASE k = "id" -> id
          [] k = "stats" -> st
          [] k = "infoUri" -> "info"
          [] OTHER -> extra[k]]

Bodies ==
    { Body("q1", S1, [nextUri |-> U1]),
      Body("q1", S2, [nextUri |-> U1, columns |-> ColsA,
                      warnings |-> << "w1" >>, data |-> << "r1" >>]),
      Body("q1", S3, [nextUri |-> U2, columns |-> ColsB, data |-> << "r2", "r3" >>]),
      Body("q1", S2, [columns |-> ColsB, warnings |-> << "w2" >>, data |-> << "r4" >>]),
      Body("q2", S1, EmptyDict),
      Body("q2", S3, [nextUri |-> U1, columns |-> ColsA]) }

ErrorTypes == {"EXTERNAL", "USER_ERROR", "INTERNAL_ERROR"}

ErrorBodies ==
    { [k \in {"id", "error"} |->
          IF k = "id" THEN "q1" ELSE [errorType |-> t]] : t \in ErrorTypes }

\* What awaiting a session call yields: an exception of the HTTP library, or a
\* response with a status code and a JSON body.
Exception == [kind |-> "exception"]
ResponseWith(status, headers, body) ==
    [kind |-> "response", status |-> status, headers |-> headers, body |-> body]
Response(status, body) == ResponseWith(status, EmptyDict, body)

StatementOutcomes ==
    {Exception}
    \cup {Response(200, b) : b \in Bodies \cup ErrorBodies}
    \cup {Response(s, EmptyDict) : s \in {404, 503}}

DeleteOutcomes ==
    {Exception} \cup {Response(s, EmptyDict) : s \in {200, 204, 404, 503}}

\* aiohttp.ClientResponse.ok: the status is below 400.
ok(http_response) == http_response.status < 400

----------------------------------------------------------------------------
(* PrestoRequest                                                           *)

Request(method, url) == [method |-> method, url |-> url]

\* Variant: the USER_ERROR branch is missing.
_process_error_no_user(error) ==
    CASE error["errorType"] = "EXTERNAL" -> "PrestoExternalError"
      [] OTHER -> "PrestoQueryError"

\* _process_error: the exception process raises for an error field.
_process_error(error) ==
    CASE error["errorType"] = "EXTERNAL" -> "PrestoExternalError"
      [] error["errorType"] = "USER_ERROR" -> "PrestoUserError"
      [] OTHER -> "PrestoQueryError"

\* raise_response_error: always raises.
raise_response_error(http_response) ==
    IF http_response.status = 503 THEN "Http503Error" ELSE "HttpError"

\* The exception process raises for a response, "none" when it returns.
ProcessRaises(http_response) ==
    IF ~ok(http_response) THEN raise_response_error(http_response)
    ELSE IF "error" \in DOMAIN http_response.body
         THEN _process_error(http_response.body["error"])
         ELSE "none"

\* self._next_uri = response.get("nextUri")
ProcessNextUri(http_response) ==
    IF "nextUri" \in DOMAIN http_response.body
    THEN Some(http_response.body["nextUri"]) ELSE None

\* The PrestoStatus process returns.
ProcessStatus(http_response) ==
    LET response == http_response.body IN
    [ id       |-> response["id"],
      stats    |-> response["stats"],
      warnings |-> Get(response, "warnings", << >>),
      info_uri |-> response["infoUri"],
      next_uri |-> ProcessNextUri(http_response),
      rows     |-> Get(response, "data", << >>),
      columns  |-> IF "columns" \in DOMAIN response
                   THEN Some(response["columns"]) ELSE None ]

----------------------------------------------------------------------------
(* State                                                                   *)

VARIABLES
    query_id,    \* PrestoQuery.query_id : Optional[Text]
    stats,       \* PrestoQuery._stats : dict
    warnings,    \* PrestoQuery._warnings : list
    columns,     \* PrestoQuery._columns : Optional[list]
    finished,    \* PrestoQuery._finished
    cancelled,   \* PrestoQuery._cancelled
    result,      \* PrestoQuery._result
    next_uri,    \* PrestoRequest._next_uri : Optional[Text]
    calls,       \* number of PrestoQuery method calls made so far
    last,        \* the last call: its method, what it raised, the requests it
                 \* handed to the HTTP session, the status code it got back
    processed,   \* the PrestoStatus values execute and fetch have processed,
                 \* each with the method that processed it
    properties,      \* PrestoRequest._client_session.properties : dict
    client_headers,  \* PrestoRequest._client_session.headers : dict
    session_headers, \* PrestoRequest._http_session.headers, None until
                     \* __init__ has set them : Optional[dict]
    max_attempts,    \* PrestoRequest._max_attempts
    transport,       \* the last PrestoRequest call: its method, what it raised,
                     \* the session calls it made, the script the session
                     \* followed, the response it returned or processed
    _rows,           \* PrestoResult._rows : Optional[list]
    _rownumber,      \* PrestoResult._rownumber
    gen,             \* the generator of PrestoResult.__aiter__: where it
                     \* is, the list its for loop iterates, how many of the
                     \* list's rows the loop has taken
    yielded,         \* the rows the generator has yielded, in order
    _http_session,   \* PrestoRequest._http_session; before __init__ runs, its
                     \* http_session argument : Optional[session]
    _close_session,  \* PrestoRequest._close_session
    connector_closed, \* the connector of the HTTP session has been closed
    scope,           \* where the async with block over the PrestoRequest is
    item,            \* the argument of the last map_to_python_type call
    decoded          \* what that call returned or raised

queryVars == << query_id, stats, warnings, columns, finished, cancelled, result >>
transportVars == << properties, client_headers, session_headers, max_attempts,
                    transport >>
resultVars == << _rows, _rownumber, gen, yielded >>
sessionVars == << _http_session, _close_session, connector_closed, scope >>
decodeVars == << item, decoded >>
vars == << query_id, stats, warnings, columns, finished, cancelled, result,
           next_uri, calls, last, processed,
           properties, client_headers, session_headers, max_attempts,
           transport, _rows, _rownumber, gen, yielded,
           _http_session, _close_session, connector_closed, scope,
           item, decoded >>

Call(op, raised, sent, got) ==
    [op |-> op, raised |-> raised, sent |-> sent,
     status |-> IF got = None \/ got[1].kind = "exception"
                THEN None ELSE Some(got[1].status)]

Processed(op, status) == [op |-> op, status |-> status]

\* PrestoQuery.__init__
QueryInit ==
    /\ query_id = None
    /\ stats = EmptyDict
    /\ warnings = << >>
    /\ columns = None
    /\ finished = FALSE
    /\ cancelled = FALSE
    /\ result = << >>
    /\ calls = 0
    /\ last = Call("init", "none", << >>, None)
    /\ processed = << >>

\* A call that raises before or while talking to the server, or during
\* process: no PrestoQuery field and no transport field is assigned.
Raise(op, raised, sent, got) ==
    /\ last' = Call(op, raised, sent, got)
    /\ UNCHANGED << queryVars, next_uri, processed >>

----------------------------------------------------------------------------
(* PrestoQuery.execute                                                     *)
(* The transport is built without a service account file, so credentials   *)
(* is None and the token refresh of execute is skipped.  The answers to the *)
(* POST drawn here are not redirects.                                       *)

\* self._stats.update({u"queryId": self.query_id})
\* self._stats.update(status.stats)
ExecuteStats(status) ==
    DictUpdate(DictUpdate(stats, [k \in {"queryId"} |-> status.id]), status.stats)

\* if status.next_uri is None: self._finished = True
ExecuteFinished(status) == IF status.next_uri = None THEN TRUE ELSE finished

\* Variant: execute always submits the statement.
ExecuteRequestAlwaysPost == Request("POST", Some(statement_url))

\* if self._request.next_uri: get(next_uri) else: post(self._sql)
ExecuteRequest ==
    IF Truthy(next_uri)
    THEN Request("GET", next_uri)
    ELSE Request("POST", Some(statement_url))

\* Variant: execute does not look at the cancelled flag.
ExecuteRefusesNever == FALSE

\* if self._cancelled: raise exceptions.PrestoUserError(...)
ExecuteRefuses == cancelled

Execute ==
    /\ calls < MaxCalls
    /\ calls' = calls + 1
    /\ IF ExecuteRefuses
       THEN Raise("execute", "PrestoUserError", << >>, None)
       ELSE \E out \in StatementOutcomes :
            LET request == ExecuteRequest
            IN  IF out.kind = "exception"
                THEN Raise("execute", "HttpException", << request >>, Some(out))
                ELSE IF ProcessRaises(out) # "none"
                THEN Raise("execute", ProcessRaises(out), << request >>, Some(out))
                ELSE LET status == ProcessStatus(out) IN
                     /\ next_uri' = ProcessNextUri(out)
                     /\ query_id' = Some(status.id)
                     /\ columns' = IF Truthy(status.columns)
                                   THEN status.columns ELSE columns
                     /\ stats' = ExecuteStats(status)
                     /\ warnings' = status.warnings
                     /\ finished' = ExecuteFinished(status)
                     /\ result' = status.rows
                     /\ processed' = Append(processed, Processed("execute", status))
                     /\ last' = Call("execute", "none", << request >>, Some(out))
                     /\ UNCHANGED cancelled

----------------------------------------------------------------------------
(* PrestoQuery.fetch                                                       *)
(* fetch reads neither _finished nor _cancelled: the GET goes to whatever   *)
(* the transport's next_uri is, None included, and what the HTTP session    *)
(* makes of it is the environment's choice.                                 *)

\* Variant: the statistics of the latest Status replace the accumulated ones.
FetchStatsReplace(status) == status.stats

\* self._stats.update(status.stats)

FetchStats(status) == DictUpdate(stats, status.stats)

\* Variant: fetch leaves the finished flag alone.
FetchNeverFinishes(status) == finished

\* if status.next_uri is None: self._finished = True

FetchFinished(status) == IF status.next_uri = None THEN TRUE ELSE finished

Fetch ==
    /\ calls < MaxCalls
    /\ calls' = calls + 1
    /\ \E out \in StatementOutcomes :
       LET request == Request("GET", next_uri) IN
       IF out.kind = "exception"
       THEN Raise("fetch", "HttpException", << request >>, Some(out))
       ELSE IF ProcessRaises(out) # "none"
       THEN Raise("fetch", ProcessRaises(out), << request >>, Some(out))
       ELSE LET status == ProcessStatus(out) IN
            /\ next_uri' = ProcessNextUri(out)
            /\ columns' = IF Truthy(status.columns)
                          THEN status.columns ELSE columns
            /\ stats' = FetchStats(status)
            /\ finished' = FetchFinished(status)
            /\ processed' = Append(processed, Processed("fetch", status))
            /\ last' = Call("fetch", "none", << request >>, Some(out))
            /\ UNCHANGED << query_id, warnings, cancelled, result >>

----------------------------------------------------------------------------
(* PrestoQuery.cancel                                                      *)

is_finished == finished

\* Variant: cancel checks the query id only.
CancelNoOpIdOnly == query_id = None

\* if self.query_id is None or self.is_finished(): return
CancelNoOp == query_id = None \/ is_finished

\* Variant: cancel sends the DELETE without setting the flag.
CancelFlagKept == cancelled

\* self._cancelled = True
CancelFlag == TRUE

\* Variant: any 2xx status confirms the cancellation.
CancelConfirmedAny2xx(response) == response.status \in 200..299

\* if response.status == 204: return
CancelConfirmed(response) == response.status = 204

Cancel ==
    /\ calls < MaxCalls
    /\ calls' = calls + 1
    /\ IF CancelNoOp
       THEN /\ last' = Call("cancel", "none", << >>, None)
            /\ UNCHANGED << queryVars, next_uri, processed >>
       ELSE \E out \in DeleteOutcomes :
            LET url == get_url(CancelPath(query_id[1]))
                request == Request("DELETE", Some(url))
                raised == IF out.kind = "exception" THEN "HttpException"
                          ELSE IF CancelConfirmed(out) THEN "none"
                          ELSE raise_response_error(out)
            IN  /\ cancelled' = CancelFlag
                /\ last' = Call("cancel", raised, << request >>, Some(out))
                /\ UNCHANGED << query_id, stats, warnings, columns, finished,
                                result, next_uri, processed >>

----------------------------------------------------------------------------
(* PrestoRequest: headers, construction                                    *)

\* prestodb.constants: the header names the transport reads and writes.
HEADER_CATALOG == "X-Presto-Catalog"
HEADER_SCHEMA == "X-Presto-Schema"
HEADER_SOURCE == "X-Presto-Source"
HEADER_USER == "X-Presto-User"
HEADER_SESSION == "X-Presto-Session"
HEADER_TRANSACTION == "X-Presto-Transaction-Id"
HEADER_CLEAR_SESSION == "X-Presto-Clear-Session"
HEADER_SET_SESSION == "X-Presto-Set-Session"
NO_TRANSACTION == "NONE"

\* ",".join("{}={}".format(name, parse.quote(str(value))) ...): the entries
\* joined, one per session property (the values drawn need no quoting).
header_session(props) == { << name, "=", props[name] >> : name \in DOMAIN props }

\* The dict http_headers starts from.
ReservedHeaders(props) ==
    [k \in {HEADER_CATALOG, HEADER_SCHEMA, HEADER_SOURCE, HEADER_USER,
            HEADER_SESSION} |->
        CASE k = HEADER_CATALOG -> "memory"
          [] k = HEADER_SCHEMA -> "default"
          [] k = HEADER_SOURCE -> "python test"
          [] k = HEADER_USER -> "user"
          [] OTHER -> header_session(props)]

\* for key in self._client_session.headers:
\*     if key in headers.keys(): raise ValueError(...)
http_headers_raises(props, custom) ==
    \E key \in DOMAIN custom : key \in DOMAIN ReservedHeaders(props)

\* The http_headers property when it does not raise: the custom headers are
\* merged, then the transaction id is written (no value is None here).
http_headers(props, custom) ==
    DictUpdate(DictUpdate(ReservedHeaders(props), custom),
               [k \in {HEADER_TRANSACTION} |-> NO_TRANSACTION])

\* Custom HTTP headers a caller may pass to PrestoRequest.
CustomHeaders ==
    { EmptyDict,
      [k \in {"X-Trace"} |-> "t1"],
      [k \in {HEADER_USER} |-> "other"],
      [k \in {HEADER_SESSION} |-> "p=9"],
      [k \in {HEADER_TRANSACTION} |-> "tx9"] }

\* Session properties a caller may pass to PrestoRequest.
InitialProperties ==
    { EmptyDict, [k \in {"p", "r"} |-> IF k = "p" THEN "1" ELSE "3"] }

TransportCall(op, raised, attempts, http, script, response) ==
    [op |-> op, raised |-> raised, attempts |-> attempts, http |-> http,
     script |-> script, response |-> response]

NoTransportCall == TransportCall("none", "none", 0, << >>, << >>, None)

\* The aiohttp ClientSession the transport talks through.
ClientSession == "ClientSession"

\* A PrestoRequest as main.py builds it: no custom headers, no session
\* properties, the default number of attempts, a session of its own, and the
\* async with block entered.
TransportBuilt ==
    /\ properties = EmptyDict
    /\ client_headers = EmptyDict
    /\ session_headers = Some(http_headers(EmptyDict, EmptyDict))
    /\ max_attempts = 3
    /\ transport = NoTransportCall
    /\ _http_session = Some(ClientSession)
    /\ _close_session = TRUE
    /\ connector_closed = FALSE
    /\ scope = "inside"

\* The arguments of PrestoRequest.__init__, before it runs.
TransportArguments ==
    /\ properties \in InitialProperties
    /\ client_headers \in CustomHeaders
    /\ session_headers = None
    /\ max_attempts \in {1, 3}
    /\ transport = NoTransportCall
    /\ _close_session = FALSE
    /\ connector_closed = FALSE
    /\ scope = "outside"

\* PrestoRequest.__init__ keeps the session it is given, or creates one that it
\* will have to close.  self._http_session.headers.update(self.http_headers)
\* raises what the property raises; otherwise the session gets the headers.
Construct ==
    /\ session_headers = None
    /\ transport.op = "none"
    /\ _http_session' = IF _http_session # None THEN _http_session
                        ELSE Some(ClientSession)
    /\ _close_session' = (_http_session = None)
    /\ IF http_headers_raises(properties, client_headers)
       THEN /\ transport' = TransportCall("__init__", "ValueError", 0, << >>,
                                          << >>, None)
            /\ UNCHANGED session_headers
       ELSE /\ transport' = TransportCall("__init__", "none", 0, << >>,
                                          << >>, None)
            /\ session_headers' = Some(http_headers(properties, client_headers))
    /\ UNCHANGED << resultVars, queryVars, next_uri, calls, last, processed,
                    properties, client_headers, max_attempts,
                    connector_closed, scope, decodeVars >>

----------------------------------------------------------------------------
(* PrestoRequest: the retry layer, get / delete / post                     *)

\* Calling a method of the aiohttp session does no I/O and raises nothing: it
\* returns an awaitable, and awaiting that yields the exception or response.
SessionCall(outcome) == [kind |-> "awaitable", yields |-> outcome]

Await(awaitable) == awaitable.yields

\* getattr(response, "status", None)
StatusAttr(obj) == IF obj.kind = "response" THEN Some(obj.status) ELSE None

\* What the session would yield for its i-th call.
Outcome(script, i) == IF i <= Len(script) THEN script[i] ELSE Exception

\* The function retry_with returns, applied to a session method: the loop
\* over the attempts runs around the call alone, the await happens in the
\* caller.  An attempt is repeated when the condition of the setter holds of
\* what the call returned: its status attribute is 503.
RECURSIVE decorated(_, _, _, _)
decorated(script, first, attempt, n) ==
    LET res == SessionCall(Outcome(script, first + attempt - 1)) IN
    IF StatusAttr(res) = Some(503) /\ attempt < n
    THEN decorated(script, first, attempt + 1, n)
    ELSE [result |-> res, attempts |-> attempt]

\* self._get / self._post / self._delete as the max_attempts setter binds them:
\* the session method itself when value == 1, wrapped by with_retry otherwise.
wrapped(script, first) ==
    IF max_attempts = 1
    THEN [result |-> SessionCall(Outcome(script, first)), attempts |-> 1]
    ELSE decorated(script, first, 1, max_attempts)

HttpRequest(method, url, data, headers, awaited) ==
    [method |-> method, url |-> url, data |-> data, headers |-> headers,
     awaited |-> awaited]

\* The headers a request goes out with: the default headers of the session,
\* which __init__ set once, overridden by the headers argument of the call
\* when there is one.
SentHeaders(defaults, request) ==
    IF request.headers = None THEN defaults
    ELSE DictUpdate(defaults, request.headers[1])

Returned(op, response, attempts, http, script) ==
    TransportCall(op, "none", attempts, http, script, Some(response))

Raised(op, raised, attempts, http, script) ==
    TransportCall(op, raised, attempts, http, script, None)

\* get: return await self._get(url, headers=self.http_headers, ...)
get(url, script) ==
    LET call == wrapped(script, 1)
        out == Await(call.result)
        http == << HttpRequest("GET", url, None,
                               Some(http_headers(properties, client_headers)),
                               TRUE) >>
    IN  IF out.kind = "exception"
        THEN Raised("get", "HttpException", call.attempts, http, script)
        ELSE Returned("get", out, call.attempts, http, script)

\* delete: return await self._delete(url, timeout=..., proxy=PROXIES)
delete(url, script) ==
    LET call == wrapped(script, 1)
        out == Await(call.result)
        http == << HttpRequest("DELETE", url, None, None, TRUE) >>
    IN  IF out.kind = "exception"
        THEN Raised("delete", "HttpException", call.attempts, http, script)
        ELSE Returned("delete", out, call.attempts, http, script)

\* is_redirect: the headers of aiohttp match names without regard to case.
is_redirect(http_response) ==
    /\ "Location" \in DOMAIN http_response.headers
    /\ http_response.status \in {301, 302, 303, 307, 308}

\* self._redirect_handler.handle(location): the resolver's target.
handle(location) == << "resolved:" >> \o location

\* The redirect loop of post.  http_response is what the loop variable holds:
\* the awaited first response, then what self._post returned, which is not
\* awaited; is_redirect reads its headers and status.
RECURSIVE PostLoop(_, _, _, _)
PostLoop(http_response, script, calls_made, http) ==
    IF http_response.kind # "response"
    THEN Raised("post", "AttributeError", calls_made, http, script)
    ELSE IF is_redirect(http_response)
    THEN LET url == handle(http_response.headers["Location"])
             call == wrapped(script, calls_made + 1)
         IN  PostLoop(call.result, script, calls_made + call.attempts,
                      Append(http, HttpRequest("POST", url, Some(sql),
                                 Some(http_headers(properties, client_headers)),
                                 FALSE)))
    ELSE Returned("post", http_response, calls_made, http, script)

\* post, with the redirect handler main.py leaves at its default (not None).
post(script) ==
    LET call == wrapped(script, 1)
        out == Await(call.result)
        http == << HttpRequest("POST", statement_url, Some(sql),
                               Some(http_headers(properties, client_headers)),
                               TRUE) >>
    IN  IF out.kind = "exception"
        THEN Raised("post", "HttpException", call.attempts, http, script)
        ELSE PostLoop(out, script, call.attempts, http)

\* Responses of the session: headers the transport reads, and statuses.
Redirect == [k \in {"Location"} |-> << "http://gateway/v1/statement" >>]

B1 == Body("q1", S1, [nextUri |-> U1])
B5 == Body("q2", S1, EmptyDict)

ScriptOutcomes ==
    { Exception,
      Response(200, B1),
      Response(503, EmptyDict),
      Response(404, EmptyDict),
      ResponseWith(302, Redirect, EmptyDict) }

\* What the session yields for its first, second and third call.
Scripts ==
    { << first, second, Response(200, B5) >> :
          first \in ScriptOutcomes,
          second \in {Exception, Response(200, B1),
                      ResponseWith(302, Redirect, EmptyDict)} }

TransportUnchanged ==
    UNCHANGED << resultVars, queryVars, next_uri, calls, last, processed,
                 properties, client_headers, session_headers, max_attempts,
                 sessionVars, decodeVars >>

TransportGet ==
    /\ session_headers # None
    /\ \E script \in Scripts : transport' = get(Some(U1), script)
    /\ TransportUnchanged

TransportDelete ==
    /\ session_headers # None
    /\ \E script \in Scripts :
           transport' = delete(Some(get_url(CancelPath("q1"))), script)
    /\ TransportUnchanged

TransportPost ==
    /\ session_headers # None
    /\ \E script \in Scripts : transport' = post(script)
    /\ TransportUnchanged

----------------------------------------------------------------------------
(* PrestoRequest.process                                                   *)

\* get_header_values: the comma separated entries of a header, here already
\* split; an entry of the set header is << name, value >>.
ClearNames(http_response) ==
    IF HEADER_CLEAR_SESSION \in DOMAIN http_response.headers
    THEN http_response.headers[HEADER_CLEAR_SESSION] ELSE << >>

SetEntries(http_response) ==
    IF HEADER_SET_SESSION \in DOMAIN http_response.headers
    THEN http_response.headers[HEADER_SET_SESSION] ELSE << >>

\* properties.pop(prop, None) for every prop of a list
RECURSIVE PopAll(_, _)
PopAll(props, names) ==
    IF names = << >> THEN props
    ELSE PopAll([k \in (DOMAIN props) \ {Head(names)} |-> props[k]], Tail(names))

\* properties[key] = value for every entry of a list
RECURSIVE SetAll(_, _)
SetAll(props, entries) ==
    IF entries = << >> THEN props
    ELSE SetAll(DictUpdate(props, [k \in {Head(entries)[1]} |-> Head(entries)[2]]),
                Tail(entries))

\* Variant: the set header is applied before the clear header.
ProcessPropertiesSetFirst(props, http_response) ==
    PopAll(SetAll(props, SetEntries(http_response)), ClearNames(http_response))

\* The session properties after process has applied the clear header and then
\* the set header of a response.
ProcessProperties(props, http_response) ==
    SetAll(PopAll(props, ClearNames(http_response)), SetEntries(http_response))

ClearP == [k \in {HEADER_CLEAR_SESSION} |-> << "p" >>]
SetP == [k \in {HEADER_SET_SESSION} |-> << << "p", "2" >> >>]
ClearPQSetP ==
    [k \in {HEADER_CLEAR_SESSION, HEADER_SET_SESSION} |->
        IF k = HEADER_CLEAR_SESSION THEN << "p", "q" >> ELSE << << "p", "2" >> >>]
ClearRSetQP ==
    [k \in {HEADER_CLEAR_SESSION, HEADER_SET_SESSION} |->
        IF k = HEADER_CLEAR_SESSION THEN << "r" >>
        ELSE << << "q", "1" >>, << "p", "5" >> >>]

SessionHeaders == { EmptyDict, ClearP, SetP, ClearPQSetP, ClearRSetQP }

\* The responses process is given.
ProcessResponses ==
    { ResponseWith(200, h, b) :
          h \in SessionHeaders, b \in {B1, B5} \cup ErrorBodies }
    \cup { ResponseWith(s, h, B1) :
               s \in {302, 404, 503}, h \in {EmptyDict, ClearPQSetP} }

\* Variant: the session headers are applied before the response is checked.
ProcessedPropertiesUnchecked(props, http_response) ==
    ProcessProperties(props, http_response)

\* The session properties when process is over: it raises before it reaches
\* the session headers, or it applies them.
ProcessedProperties(props, http_response) ==
    IF ProcessRaises(http_response) # "none" THEN props
    ELSE ProcessProperties(props, http_response)

TransportProcess ==
    /\ session_headers # None
    /\ \E http_response \in ProcessResponses :
       IF ProcessRaises(http_response) # "none"
       THEN /\ transport' = TransportCall("process", ProcessRaises(http_response),
                                          0, << >>, << >>, Some(http_response))
            /\ properties' = ProcessedProperties(properties, http_response)
            /\ UNCHANGED next_uri
       ELSE /\ properties' = ProcessedProperties(properties, http_response)
            /\ next_uri' = ProcessNextUri(http_response)
            /\ transport' = TransportCall("process", "none", 0, << >>, << >>,
                                          Some(http_response))
    /\ UNCHANGED << resultVars, queryVars, calls, last, processed,
                    client_headers, session_headers, max_attempts,
                    sessionVars, decodeVars >>

----------------------------------------------------------------------------
(* PrestoRequest as an async context manager                               *)

\* __aenter__: return self
AEnter ==
    /\ session_headers # None
    /\ scope = "outside"
    /\ scope' = "inside"
    /\ UNCHANGED << queryVars, next_uri, calls, last, processed, transportVars,
                    _http_session, _close_session, connector_closed,
                    resultVars, decodeVars >>

\* A request made in the body of the async with block.
BodyGet == scope = "inside" /\ TransportGet

\* Variant: the session is closed only when the body has not raised.
AExitClosesOnReturn(exc) == exc = None

\* __aexit__(exc_type, exc, tb): await self.close(), whatever the arguments
AExitCloses(exc) == TRUE

\* The body of the async with block returns or raises, and __aexit__ runs
\* close, which runs _close_http_session:
\*   if self._http_session and self._close_session:
\*       if not self._http_session.closed: await ...connector.close()
\*       self._http_session = None
AExit ==
    /\ scope = "inside"
    /\ \E exc \in {None, Some("Exception")} :
           /\ scope' = IF exc = None THEN "returned" ELSE "raised"
           /\ IF AExitCloses(exc) /\ _http_session # None /\ _close_session
              THEN /\ connector_closed' = (IF ~connector_closed THEN TRUE
                                           ELSE connector_closed)
                   /\ _http_session' = None
              ELSE UNCHANGED << connector_closed, _http_session >>
    /\ UNCHANGED << queryVars, next_uri, calls, last, processed, transportVars,
                    _close_session, resultVars, decodeVars >>

----------------------------------------------------------------------------
(* PrestoResult                                                            *)
(* A PrestoResult is built on a query whose execute has returned, from the  *)
(* rows execute returned, and is then iterated by one consumer; nothing     *)
(* else calls the query while the generator runs.                           *)

Generator(pc, rows, taken) == [pc |-> pc, rows |-> rows, taken |-> taken]

\* No PrestoResult has been built.
NoResult ==
    /\ _rows = None
    /\ _rownumber = 0
    /\ gen = Generator("none", << >>, 0)
    /\ yielded = << >>

\* Variant: the rows handed to the constructor are ignored.
PrestoResultRowsIgnored(rows) == << >>

\* self._rows = rows or []
PrestoResultRows(rows) == IF rows # << >> THEN rows ELSE << >>

\* PrestoResult(query, query.result) followed by __aiter__(): the generator
\* exists and has not run yet.
NewResult ==
    /\ gen.pc = "none"
    /\ last.op = "execute"
    /\ last.raised = "none"
    /\ _rows' = Some(PrestoResultRows(result))
    /\ _rownumber' = 0
    /\ gen' = Generator("initial", PrestoResultRows(result), 0)
    /\ yielded' = << >>
    /\ UNCHANGED << queryVars, next_uri, calls, last, processed, transportVars,
                    sessionVars, decodeVars >>

\* The for loop the generator is in has rows left.
GenHasNext == gen.taken < Len(gen.rows)

\* The for loop the generator is in is over; leaving the first one runs
\* self._rows = None.
GenLoopOver == gen.pc \in {"initial", "pages"} /\ ~GenHasNext

\* self._rownumber += 1; yield row
GenYield ==
    /\ gen.pc \in {"initial", "pages"}
    /\ GenHasNext
    /\ _rownumber' = _rownumber + 1
    /\ yielded' = Append(yielded, gen.rows[gen.taken + 1])
    /\ gen' = [gen EXCEPT !.taken = @ + 1]
    /\ UNCHANGED << _rows, queryVars, next_uri, calls, last, processed,
                    transportVars, sessionVars, decodeVars >>

\* while not self._query.is_finished(): rows = await self._query.fetch()
\* An exception of fetch ends the generator.
GenFetch ==
    /\ GenLoopOver
    /\ ~is_finished
    /\ Fetch
    /\ _rows' = None
    /\ gen' = IF last'.raised = "none"
              THEN Generator("pages", processed'[Len(processed')].status.rows, 0)
              ELSE Generator("raised", << >>, 0)
    /\ UNCHANGED << _rownumber, yielded, transportVars, sessionVars, decodeVars >>

\* The while condition is false: the generator returns.
GenStop ==
    /\ GenLoopOver
    /\ is_finished
    /\ _rows' = None
    /\ gen' = Generator("done", << >>, 0)
    /\ UNCHANGED << _rownumber, yielded, queryVars, next_uri, calls, last,
                    processed, transportVars, sessionVars, decodeVars >>

\* The first execute of the query, before the PrestoResult is built.
ResultExecute ==
    /\ gen.pc = "none"
    /\ processed = << >>
    /\ Execute
    /\ UNCHANGED << transportVars, sessionVars, resultVars, decodeVars >>

----------------------------------------------------------------------------
(* main.map_to_python_type                                                 *)

\* map_to_python_type has not been called.
NoDecode == item = None /\ decoded = None

\* JSON values of a row as the server delivers them, and the Python values the
\* decoder makes of them.  A string is the sequence of its characters.
Null == [kind |-> "None"]
Str(chars) == [kind |-> "str", chars |-> chars]
PyInt(n) == [kind |-> "int", n |-> n]
List(items) == [kind |-> "list", items |-> items]
PyTuple(items) == [kind |-> "tuple", items |-> items]
\* A dict: the sequence of its << key, value >> items in insertion order.
Dict(items) == [kind |-> "dict", items |-> items]

\* What a call does: it returns a value or raises an exception.
Return(value) == [kind |-> "return", value |-> value]
RaiseError(exc) == [kind |-> "raise", exc |-> exc]

DigitChars == << "0", "1", "2", "3", "4", "5", "6", "7", "8", "9" >>

IsDigit(c) == \E i \in DOMAIN DigitChars : DigitChars[i] = c

AllDigits(chars) == \A i \in DOMAIN chars : IsDigit(chars[i])

\* int(chars) for a sequence of digits
RECURSIVE ToInt(_)
ToInt(chars) ==
    IF chars = << >> THEN 0
    ELSE 10 * ToInt(SubSeq(chars, 1, Len(chars) - 1))
         + ((CHOOSE i \in DOMAIN DigitChars : DigitChars[i] = chars[Len(chars)]) - 1)

\* str.split(sep) for a separator of one character
RECURSIVE Split(_, _)
Split(chars, sep) ==
    IF \A i \in DOMAIN chars : chars[i] # sep THEN << chars >>
    ELSE LET at == CHOOSE i \in DOMAIN chars :
                       chars[i] = sep /\ \A j \in 1..(i - 1) : chars[j] # sep
         IN  << SubSeq(chars, 1, at - 1) >>
             \o Split(SubSeq(chars, at + 1, Len(chars)), sep)

\* str.rsplit(sep, 1)
rsplit(chars, sep) ==
    IF \A i \in DOMAIN chars : chars[i] # sep THEN << chars >>
    ELSE LET at == CHOOSE i \in DOMAIN chars :
                       chars[i] = sep /\ \A j \in (i + 1)..Len(chars) : chars[j] # sep
         IN  << SubSeq(chars, 1, at - 1), SubSeq(chars, at + 1, Len(chars)) >>

\* A field of one or two digits whose number lies in lo..hi: the directives
\* %m, %d, %H, %M and %S of strptime.
Field(chars, lo, hi) ==
    /\ Len(chars) \in 1..2
    /\ AllDigits(chars)
    /\ ToInt(chars) \in lo..hi

\* datetime.date(year, month, day) raises ValueError outside these.
DaysInMonth(year, month) ==
    CASE month \in {4, 6, 9, 11} -> 30
      [] month = 2 -> IF year % 4 = 0 /\ (year % 100 # 0 \/ year % 400 = 0)
                      THEN 29 ELSE 28
      [] OTHER -> 31

\* The date fields strptime reads with "%Y-%m-%d", or ValueError.  %Y takes
\* four digits; the year 0 is below datetime.MINYEAR.
ParseDate(chars) ==
    LET f == Split(chars, "-") IN
    IF /\ Len(f) = 3
       /\ Len(f[1]) = 4 /\ AllDigits(f[1]) /\ ToInt(f[1]) >= 1
       /\ Field(f[2], 1, 12)
       /\ Field(f[3], 1, 31)
       /\ ToInt(f[3]) <= DaysInMonth(ToInt(f[1]), ToInt(f[2]))
    THEN Return([year |-> ToInt(f[1]), month |-> ToInt(f[2]), day |-> ToInt(f[3])])
    ELSE RaiseError("ValueError")

\* %f: one to six digits, read as a fraction of a second in microseconds
RECURSIVE Microseconds(_)
Microseconds(chars) ==
    IF Len(chars) >= 6 THEN ToInt(chars) ELSE Microseconds(Append(chars, "0"))

\* The time fields strptime reads with "%H:%M:%S.%f", or ValueError.  %S
\* matches 60 and 61 too, which datetime then rejects.
ParseTime(chars) ==
    LET f == Split(chars, ":")
        s == IF Len(f) = 3 THEN Split(f[3], ".") ELSE << >>
    IN
    IF /\ Len(f) = 3
       /\ Field(f[1], 0, 23)
       /\ Field(f[2], 0, 59)
       /\ Len(s) = 2
       /\ Field(s[1], 0, 59)
       /\ Len(s[2]) \in 1..6 /\ AllDigits(s[2])
    THEN Return([hour |-> ToInt(f[1]), minute |-> ToInt(f[2]),
                 second |-> ToInt(s[1]), microsecond |-> Microseconds(s[2])])
    ELSE RaiseError("ValueError")

\* %z: a sign, two digits of hours, an optional colon and two digits of
\* minutes below 60; the offset in minutes, or ValueError.  timezone() takes
\* offsets strictly within a day.
ParseOffset(chars) ==
    LET digits == IF Len(chars) = 6 /\ chars[4] = ":"
                  THEN SubSeq(chars, 2, 3) \o SubSeq(chars, 5, 6)
                  ELSE SubSeq(chars, 2, Len(chars))
    IN
    IF /\ Len(chars) >= 1 /\ chars[1] \in {"+", "-"}
       /\ Len(digits) = 4 /\ AllDigits(digits)
       /\ ToInt(SubSeq(digits, 3, 4)) <= 59
       /\ ToInt(SubSeq(digits, 1, 2)) <= 23
    THEN Return((IF chars[1] = "-" THEN -1 ELSE 1)
                * (60 * ToInt(SubSeq(digits, 1, 2)) + ToInt(SubSeq(digits, 3, 4))))
    ELSE RaiseError("ValueError")

\* A datetime.datetime, a datetime.date and a datetime.time.  tzinfo is None,
\* a fixed offset [utcoffset |-> minutes], or a pytz zone [zone |-> name].
Datetime(d, t, tzinfo) ==
    [kind |-> "datetime", year |-> d.year, month |-> d.month, day |-> d.day,
     hour |-> t.hour, minute |-> t.minute, second |-> t.second,
     microsecond |-> t.microsecond, tzinfo |-> tzinfo]
Date(d) == [kind |-> "date", year |-> d.year, month |-> d.month, day |-> d.day]
Time(t, tzinfo) ==
    [kind |-> "time", hour |-> t.hour, minute |-> t.minute, second |-> t.second,
     microsecond |-> t.microsecond, tzinfo |-> tzinfo]

\* datetime.strptime for the four formats the decoder uses, on a str whose
\* fields are separated by single characters; on anything that is not a str it
\* raises TypeError.  Fields the format lacks default to 1900-01-01 00:00:00.
strptime(value, format) ==
    IF value.kind # "str" THEN RaiseError("TypeError")
    ELSE LET parts == Split(value.chars, " ")
             d == ParseDate(parts[1])
             t == ParseTime(IF format = "%H:%M:%S.%f" THEN parts[1] ELSE parts[2])
             z == ParseOffset(parts[3])
         IN
         CASE format = "%Y-%m-%d" ->
                  IF Len(parts) = 1 /\ d.kind = "return"
                  THEN Return(Datetime(d.value,
                           [hour |-> 0, minute |-> 0, second |-> 0,
                            microsecond |-> 0], None))
                  ELSE RaiseError("ValueError")
           [] format = "%H:%M:%S.%f" ->
                  IF Len(parts) = 1 /\ t.kind = "return"
                  THEN Return(Datetime([year |-> 1900, month |-> 1, day |-> 1],
                                       t.value, None))
                  ELSE RaiseError("ValueError")
           [] format = "%Y-%m-%d %H:%M:%S.%f" ->
                  IF Len(parts) = 2 /\ d.kind = "return" /\ t.kind = "return"
                  THEN Return(Datetime(d.value, t.value, None))
                  ELSE RaiseError("ValueError")
           [] format = "%Y-%m-%d %H:%M:%S.%f %z" ->
                  IF /\ Len(parts) = 3 /\ d.kind = "return" /\ t.kind = "return"
                     /\ z.kind = "return"
                  THEN Return(Datetime(d.value, t.value, Some([utcoffset |-> z.value])))
                  ELSE RaiseError("ValueError")

Infinity == << "I", "n", "f", "i", "n", "i", "t", "y" >>
NaN == << "N", "a", "N" >>

\* decimal.Decimal(value) for an int and for a str of an optional sign and
\* then digits with an optional fraction, Infinity or NaN; any other str
\* raises decimal.InvalidOperation, which is an ArithmeticError.
Decimal(value) ==
    IF value.kind = "int"
    THEN Return([kind |-> "Decimal", sign |-> "+", coefficient |-> value.n,
                 exponent |-> 0])
    ELSE LET chars == value.chars
             signed == Len(chars) >= 1 /\ chars[1] \in {"+", "-"}
             number == IF signed THEN Tail(chars) ELSE chars
             f == Split(number, ".")
         IN
         IF number \in {Infinity, NaN}
         THEN Return([kind |-> "Decimal",
                      sign |-> IF signed THEN chars[1] ELSE "+",
                      special |-> number])
         ELSE
         IF /\ Len(f) \in 1..2
            /\ \A i \in DOMAIN f : AllDigits(f[i])
            /\ \E i \in DOMAIN f : f[i] # << >>
         THEN Return([kind |-> "Decimal",
                      sign |-> IF signed THEN chars[1] ELSE "+",
                      coefficient |-> ToInt(f[1] \o (IF Len(f) = 2 THEN f[2] ELSE << >>)),
                      exponent |-> IF Len(f) = 2 THEN 0 - Len(f[2]) ELSE 0])
         ELSE RaiseError("InvalidOperation")

\* The zone names pytz knows, of those the values drawn use.
PytzZones == { << "U", "T", "C" >> }

\* pytz.timezone(zone): UnknownTimeZoneError is a KeyError.
pytz_timezone(zone) ==
    IF zone \in PytzZones THEN Return(zone) ELSE RaiseError("UnknownTimeZoneError")

INF == [kind |-> "float", is |-> "inf"]
NEGATIVE_INF == [kind |-> "float", is |-> "-inf"]
NAN == [kind |-> "float", is |-> "nan"]

\* re.match(r'^(.*)([\+\-])(\d{2}):(\d{2})$', value): the four groups, or None.
TimeZoneMatch(chars) ==
    LET n == Len(chars) IN
    IF /\ n >= 6
       /\ chars[n - 5] \in {"+", "-"}
       /\ IsDigit(chars[n - 4]) /\ IsDigit(chars[n - 3])
       /\ chars[n - 2] = ":"
       /\ IsDigit(chars[n - 1]) /\ IsDigit(chars[n])
    THEN Some(<< SubSeq(chars, 1, n - 6), chars[n - 5],
                 SubSeq(chars, n - 4, n - 3), SubSeq(chars, n - 1, n) >>)
    ELSE None

\* The raw types of the columns drawn, each with those of the pieces the
\* decoder looks for with `in` that occur in its name.
PiecesIn(raw_type) ==
    CASE raw_type = "decimal" -> {"decimal"}
      [] raw_type = "timestamp" -> {"timestamp", "time"}
      [] raw_type = "timestamp with time zone" -> {"timestamp", "time"}
      [] raw_type = "time" -> {"time"}
      [] raw_type = "time with time zone" -> {"time with time zone", "time"}
      [] OTHER -> {}

\* raise TypeError(f"Could not convert '{value}' into the associated python
\* type for '{raw_type}'")
DecodeError(value, raw_type) ==
    [kind |-> "raise", exc |-> "TypeError",
     message |-> [value |-> value, raw_type |-> raw_type]]

\* A column type as the server describes it: {"typeSignature": {"rawType": ..,
\* "arguments": [..]}}.  The argument of an array and the two of a map have a
\* type signature as their value; an argument of a row has a named type, the
\* field's name with its type signature.
DataType(signature) == [typeSignature |-> signature]
Scalar(raw_type) == [rawType |-> raw_type, arguments |-> << >>]
ArrayOf(signature) ==
    [rawType |-> "array",
     arguments |-> << [kind |-> "TYPE", value |-> signature] >>]
MapOf(key, value) ==
    [rawType |-> "map",
     arguments |-> << [kind |-> "TYPE", value |-> key],
                      [kind |-> "TYPE", value |-> value] >>]
RowOf(signatures) ==
    [rawType |-> "row",
     arguments |-> [i \in DOMAIN signatures |->
                       [kind |-> "NAMED_TYPE",
                        value |-> [fieldName |-> i,
                                   typeSignature |-> signatures[i]]]]]

\* d[key] = value on a dict kept as the sequence of its items
DictSet(d, key, value) ==
    IF \E i \in DOMAIN d : d[i][1] = key
    THEN [i \in DOMAIN d |-> IF d[i][1] = key THEN << key, value >> ELSE d[i]]
    ELSE Append(d, << key, value >>)

RECURSIVE map_to_python_type(_, _)

\* Variant: elements that are null are left out of the result.
RECURSIVE ComprehensionWithoutNulls(_, _, _)
ComprehensionWithoutNulls(items, types, acc) ==
    IF items = << >> \/ types = << >> THEN Return(acc)
    ELSE LET r == map_to_python_type(Head(items), Head(types)) IN
         IF r.kind = "raise" THEN r
         ELSE ComprehensionWithoutNulls(Tail(items), Tail(types),
                  IF r.value = Null THEN acc ELSE Append(acc, r.value))

\* map_to_python_type((array_item, raw_type)) for the items and types paired
\* up by position, in order, collected in acc; the first exception an item
\* raises ends it.
RECURSIVE Comprehension(_, _, _)
Comprehension(items, types, acc) ==
    IF items = << >> \/ types = << >> THEN Return(acc)
    ELSE LET r == map_to_python_type(Head(items), Head(types)) IN
         IF r.kind = "raise" THEN r
         ELSE Comprehension(Tail(items), Tail(types), Append(acc, r.value))

\* {map_to_python_type((key, raw_key_type)):
\*      map_to_python_type((value[key], raw_value_type)) for key in value}
RECURSIVE DictComprehension(_, _, _, _)
DictComprehension(items, key_type, value_type, acc) ==
    IF items = << >> THEN Return(acc)
    ELSE LET k == map_to_python_type(Head(items)[1], key_type)
             v == map_to_python_type(Head(items)[2], value_type)
         IN  IF k.kind = "raise" THEN k
             ELSE IF v.kind = "raise" THEN v
             ELSE DictComprehension(Tail(items), key_type, value_type,
                                    DictSet(acc, k.value, v.value))

\* The body of the try statement for a value that is not None.
Convert(value, data_type) ==
    LET raw_type == data_type["typeSignature"]["rawType"]
        arguments == data_type["typeSignature"]["arguments"]
    IN
    IF value.kind = "list"
    THEN CASE raw_type = "array" ->
                  LET element == DataType(arguments[1]["value"])
                      r == Comprehension(value.items,
                                         [i \in DOMAIN value.items |-> element],
                                         << >>)
                  IN  IF r.kind = "raise" THEN r ELSE Return(List(r.value))
           [] raw_type = "row" ->
                  LET r == Comprehension(value.items,
                               [i \in DOMAIN arguments |-> arguments[i]["value"]],
                               << >>)
                  IN  IF r.kind = "raise" THEN r ELSE Return(PyTuple(r.value))
           [] OTHER -> Return(value)
    ELSE IF value.kind = "dict"
    THEN LET r == DictComprehension(value.items,
                                    DataType(arguments[1]["value"]),
                                    DataType(arguments[2]["value"]), << >>)
         IN  IF r.kind = "raise" THEN r ELSE Return(Dict(r.value))
    ELSE IF "decimal" \in PiecesIn(raw_type) THEN Decimal(value)
    ELSE IF raw_type = "double"
    THEN CASE value = Str(Infinity) -> Return(INF)
           [] value = Str(<< "-" >> \o Infinity) -> Return(NEGATIVE_INF)
           [] value = Str(NaN) -> Return(NAN)
           [] OTHER -> Return(value)
    ELSE IF raw_type = "date"
    THEN LET r == strptime(value, "%Y-%m-%d") IN
         IF r.kind = "raise" THEN r ELSE Return(Date(r.value))
    ELSE IF raw_type = "timestamp with time zone"
    THEN IF value.kind # "str" THEN RaiseError("AttributeError")
         ELSE LET parts == rsplit(value.chars, " ") IN
              IF Len(parts) # 2 THEN RaiseError("ValueError")
              ELSE LET dt == parts[1]
                       tz == parts[2]
                   IN
                   IF tz # << >> /\ tz[1] \in {"+", "-"}
                   THEN strptime(value, "%Y-%m-%d %H:%M:%S.%f %z")
                   ELSE LET r == strptime(Str(dt), "%Y-%m-%d %H:%M:%S.%f")
                            zone == pytz_timezone(tz)
                        IN  IF r.kind = "raise" THEN r
                            ELSE IF zone.kind = "raise" THEN zone
                            ELSE Return([r.value EXCEPT !.tzinfo = Some([zone |-> zone.value])])
    ELSE IF "timestamp" \in PiecesIn(raw_type)
    THEN strptime(value, "%Y-%m-%d %H:%M:%S.%f")
    ELSE IF "time with time zone" \in PiecesIn(raw_type)
    THEN IF value.kind # "str" THEN RaiseError("TypeError")
         ELSE LET matches == TimeZoneMatch(value.chars) IN
              IF matches = None THEN RaiseError("AssertionError")
              ELSE LET group == matches[1]
                       minutes == 60 * ToInt(group[3]) + ToInt(group[4])
                       tz == IF group[2] = "-" THEN 0 - minutes ELSE minutes
                       r == strptime(Str(group[1]), "%H:%M:%S.%f")
                   IN  IF r.kind = "raise" THEN r
                       ELSE IF minutes >= 24 * 60 THEN RaiseError("ValueError")
                       ELSE Return(Time(r.value, Some([utcoffset |-> tz])))
    ELSE IF "time" \in PiecesIn(raw_type)
    THEN LET r == strptime(value, "%H:%M:%S.%f") IN
         IF r.kind = "raise" THEN r ELSE Return(Time(r.value, None))
    ELSE Return(value)

\* map_to_python_type((value, data_type)): None stays None; a ValueError of
\* the body is raised again as TypeError, every other exception passes.
map_to_python_type(value, data_type) ==
    IF value = Null THEN Return(Null)
    ELSE LET r == Convert(value, data_type) IN
         IF r.kind = "raise" /\ r.exc = "ValueError"
         THEN DecodeError(value, data_type["typeSignature"]["rawType"])
         ELSE r

\* The character sequences of the strings the values drawn are made of:
\* well-formed and malformed decimals, dates, timestamps and times.
Strings ==
    {
      << "1", ".", "5", "0" >>,
      << "-", "2" >>,
      << "a", "b", "c" >>,
      << >>,
      << "N", "a", "N" >>,
      << "I", "n", "f", "i", "n", "i", "t", "y" >>,
      << "-", "I", "n", "f", "i", "n", "i", "t", "y" >>,
      << "2", "0", "2", "4", "-", "0", "1", "-", "0", "2" >>,
      << "2", "0", "2", "3", "-", "0", "2", "-", "2", "9" >>,
      << "2", "0", "2", "4", "-", "0", "1", "-", "0", "2", " ", "0", "3", ":", "0", "4", ":", "0", "5", ".", "6", "7", "8" >>,
      << "2", "0", "2", "4", "-", "0", "1", "-", "0", "2", " ", "0", "3", ":", "0", "4", ":", "0", "5", ".", "6", "7", "8", " ", "+", "0", "9", ":", "0", "0" >>,
      << "2", "0", "2", "4", "-", "0", "1", "-", "0", "2", " ", "0", "3", ":", "0", "4", ":", "0", "5", ".", "6", "7", "8", " ", "U", "T", "C" >>,
      << "2", "0", "2", "4", "-", "0", "1", "-", "0", "2", " ", "0", "3", ":", "0", "4", ":", "0", "5", ".", "6", "7", "8", " ", "M", "a", "r", "s" >>,
      << "0", "3", ":", "0", "4", ":", "0", "5", ".", "6", "7", "8" >>,
      << "0", "3", ":", "0", "4", ":", "6", "1", ".", "0" >>,
      << "0", "3", ":", "0", "4", ":", "0", "5", ".", "6", "7", "8", "+", "0", "9", ":", "0", "0" >>,
      << "0", "3", ":", "0", "4", ":", "0", "5", ".", "6", "7", "8", "-", "0", "9", ":", "3", "0" >>,
      << "0", "3", ":", "0", "4", ":", "0", "5", ".", "6", "7", "8", " ", "U", "T", "C" >> }

\* Lists and a dict, each with the type of its column.
NestedItems ==
    LET Garbage == Str(<< "a", "b", "c" >>)
        A_Date == Str(<< "2", "0", "2", "4", "-", "0", "1", "-", "0", "2" >>)
        A_Decimal == Str(<< "1", ".", "5", "0" >>)
    IN
    { << List(<< PyInt(1), PyInt(2), PyInt(3) >>), DataType(ArrayOf(Scalar("integer"))) >>,
      << List(<< >>), DataType(ArrayOf(Scalar("integer"))) >>,
      << List(<< A_Date, Null, A_Date >>), DataType(ArrayOf(Scalar("date"))) >>,
      << List(<< A_Date, Garbage >>), DataType(ArrayOf(Scalar("date"))) >>,
      << List(<< A_Decimal, Garbage >>), DataType(ArrayOf(Scalar("decimal"))) >>,
      << List(<< PyInt(1), Garbage >>),
         DataType(RowOf(<< Scalar("integer"), Scalar("varchar") >>)) >>,
      << List(<< A_Date, A_Decimal, Null >>),
         DataType(RowOf(<< Scalar("date"), Scalar("decimal"), Scalar("time") >>)) >>,
      << List(<< Garbage, A_Date >>),
         DataType(RowOf(<< Scalar("date"), Scalar("date") >>)) >>,
      << List(<< List(<< PyInt(1), Garbage >>), Null >>),
         DataType(ArrayOf(RowOf(<< Scalar("integer"), Scalar("varchar") >>))) >>,
      << List(<< List(<< A_Date >>), List(<< >>) >>),
         DataType(ArrayOf(ArrayOf(Scalar("date")))) >>,
      << List(<< PyInt(1) >>), DataType(Scalar("varchar")) >>,
      << Dict(<< << Garbage, A_Date >> >>),
         DataType(MapOf(Scalar("varchar"), Scalar("date"))) >> }

\* The (value, column) pairs execute_presto hands to map_to_python_type.
Items ==
    { << value, DataType(Scalar(raw_type)) >> :
          value \in { Str(chars) : chars \in Strings } \cup { PyInt(7), Null },
          raw_type \in { "decimal", "double", "date", "timestamp",
                         "timestamp with time zone", "time",
                         "time with time zone", "integer", "varchar" } }
    \cup NestedItems

\* list(map(map_to_python_type, zip(row, columns))): one call.
Decode ==
    /\ \E it \in Items :
           /\ item' = Some(it)
           /\ decoded' = Some(map_to_python_type(it[1], it[2]))
    /\ UNCHANGED << queryVars, next_uri, calls, last, processed, transportVars,
                    sessionVars, resultVars >>

----------------------------------------------------------------------------
(* Specifications                                                          *)

\* A PrestoQuery on a PrestoRequest built with or without next_uri.
Init ==
    /\ QueryInit /\ next_uri \in {None, Some(U0)} /\ TransportBuilt /\ NoResult
    /\ NoDecode

\* The calls of one PrestoQuery.  The responses drawn for them carry no
\* session headers, so process leaves the session properties as they are.
Next ==
    \/ Execute /\ UNCHANGED << transportVars, sessionVars, resultVars, decodeVars >>
    \/ Fetch /\ UNCHANGED << transportVars, sessionVars, resultVars, decodeVars >>
    \/ Cancel /\ UNCHANGED << transportVars, sessionVars, resultVars, decodeVars >>

Spec == Init /\ [][Next]_vars

\* The calls of one PrestoRequest, from its construction on.
InitTransport ==
    /\ QueryInit /\ next_uri = None /\ TransportArguments /\ NoResult
    /\ _http_session = None
    /\ NoDecode

NextTransport ==
    \/ Construct
    \/ TransportGet
    \/ TransportDelete
    \/ TransportPost
    \/ TransportProcess

SpecTransport == InitTransport /\ [][NextTransport]_vars

\* One PrestoQuery executed and then read through a PrestoResult.
InitResult == Init

NextResult ==
    \/ ResultExecute
    \/ NewResult
    \/ GenYield
    \/ GenFetch
    \/ GenStop

SpecResult == InitResult /\ [][NextResult]_vars

\* The decoder applied to the values of rows, one value at a time.
InitDecode ==
    /\ QueryInit /\ next_uri = None /\ TransportBuilt /\ NoResult
    /\ NoDecode

NextDecode == Decode

SpecDecode == InitDecode /\ [][NextDecode]_vars

\* A PrestoRequest, built with or without a session of the caller's, used in
\* an async with block.
InitScope ==
    /\ QueryInit /\ next_uri = None /\ TransportArguments /\ NoResult
    /\ _http_session \in {None, Some(ClientSession)}
    /\ NoDecode

NextScope ==
    \/ Construct
    \/ AEnter
    \/ BodyGet
    \/ AExit

SpecScope == InitScope /\ [][NextScope]_vars

----------------------------------------------------------------------------
(* Properties                                                              *)

\* The step is a call of the PrestoQuery method op.
IsCall(op) == calls' = calls + 1 /\ last'.op = op

\* C1: is_finished() is true after a call if and only if a Status processed
\* by that call or an earlier one carried no next URI (so with three
\* responses of which only the third has no next URI it is false after the
\* first two calls and true after the third), and once true it never becomes
\* false again.
C1_FinishedIffFinalStatusSeen ==
    /\ [](finished <=> \E i \in DOMAIN processed :
                           processed[i].status.next_uri = None)
    /\ [][finished => finished']_vars

\* Three responses were consumed by execute, fetch, fetch; only the third had
\* no next URI.
C1_Witness ==
    /\ calls = 3
    /\ Len(processed) = 3
    /\ processed[1].op = "execute"
    /\ processed[2].op = "fetch"
    /\ processed[3].op = "fetch"
    /\ processed[1].status.next_uri # None
    /\ processed[2].status.next_uri # None
    /\ processed[3].status.next_uri = None
    /\ finished

\* C2: fetch() on a Query whose finished flag is already true fails fast: it
\* raises an error, issues no GET, and leaves the Query's state unchanged.
C2_FetchAfterFinishedFailsFast ==
    [][(finished /\ IsCall("fetch")) =>
           /\ last'.raised # "none"
           /\ last'.sent = << >>
           /\ UNCHANGED << queryVars, next_uri >>]_vars

\* C3: after cancel() was called mid-sequence (query id assigned, not
\* finished), a fetch() fails fast and issues no GET.
C3_FetchAfterCancelFailsFast ==
    [][(cancelled /\ ~finished /\ IsCall("fetch")) =>
           /\ last'.raised # "none"
           /\ last'.sent = << >>]_vars

\* C4: execute() called again after a first execute() has completed fails
\* fast: it raises an error and issues neither a POST nor a GET.
C4_SecondExecuteFailsFast ==
    [][((\E i \in DOMAIN processed : processed[i].op = "execute")
            /\ IsCall("execute")) =>
           /\ last'.raised # "none"
           /\ last'.sent = << >>]_vars

\* C5: the cancelled flag and the finished flag are never both true.
C5_CancelledFinishedExclusive == ~(cancelled /\ finished)

\* C6: cancel() called while the query id is not yet assigned, or once the
\* Query is finished, is a no-op: it returns without issuing a DELETE and no
\* Query field (the cancelled flag included) nor transport field changes.
C6_CancelNoOpBeforeExecuteOrAfterFinished ==
    [][((query_id = None \/ finished) /\ IsCall("cancel")) =>
           /\ last'.sent = << >>
           /\ last'.raised = "none"
           /\ (~cancelled => ~cancelled')
           /\ UNCHANGED << queryVars, next_uri >>]_vars

\* cancel() was just called on a finished, not cancelled Query.
C6_Witness ==
    /\ last.op = "cancel"
    /\ finished
    /\ query_id # None
    /\ ~cancelled
    /\ last.sent = << >>

\* C7: cancel() on a Query that has a query id and is not finished issues
\* exactly one Transport.delete call and sets cancelled = true.
C7_CancelRunningIssuesOneDelete ==
    [][((query_id # None /\ ~finished) /\ IsCall("cancel")) =>
           /\ Len(last'.sent) = 1
           /\ last'.sent[1].method = "DELETE"
           /\ cancelled']_vars

\* cancel() was just called on a running Query.
C7_Witness ==
    /\ last.op = "cancel"
    /\ last.sent # << >>
    /\ query_id # None
    /\ ~finished
    /\ cancelled

\* C8: the DELETE of cancel() targets {scheme}://{host}:{port}/v1/query/{queryId}
\* with the id assigned from the first Status.
C8_CancelTargetsQueryUri ==
    [][(IsCall("cancel") /\ last'.sent # << >>) =>
           last'.sent[1].url =
               Some(<< http_scheme, "://", host, ":", port,
                       "/v1/query/", query_id[1] >>)]_vars

\* C9: when cancel() issues its DELETE, a 204 response makes it return
\* normally and any other response status is converted to a raised error.
C9_CancelOnly204Confirms ==
    (last.op = "cancel" /\ last.sent # << >> /\ last.status # None) =>
        IF last.status = Some(204)
        THEN last.raised = "none"
        ELSE last.raised \in {"HttpError", "Http503Error"}

\* cancel() got a 2xx response other than 204 to its DELETE and raised.
C9_Witness ==
    /\ last.op = "cancel"
    /\ last.status = Some(200)
    /\ last.raised = "HttpError"

\* The statuses processed so far are those of one execute followed by
\* fetches only.
OneExecuteThenFetches ==
    /\ processed # << >>
    /\ processed[1].op = "execute"
    /\ \A i \in DOMAIN processed : i > 1 => processed[i].op = "fetch"

\* The keys of the stats maps of the processed statuses.
StatKeys == UNION {DOMAIN processed[i].status.stats : i \in DOMAIN processed}

\* The last processed status whose stats map has key k.
LastWithKey(k) ==
    CHOOSE i \in DOMAIN processed :
        /\ k \in DOMAIN processed[i].status.stats
        /\ \A j \in DOMAIN processed :
               j > i => k \notin DOMAIN processed[j].status.stats

\* The union of the stats maps of the processed statuses, later values winning.
UnionOfStats == [k \in StatKeys |-> processed[LastWithKey(k)].status.stats[k]]

\* C10 as claimed: after one execute and n successful fetch calls the
\* accumulated statistics equal the union of the stats maps of all n+1
\* Status responses, the later response winning every key collision.
C10_StatsEqualUnionOfStatusStats ==
    OneExecuteThenFetches => stats = UnionOfStats

\* C10 as amended: the accumulated statistics equal that union extended by
\* the entry queryId -> id of the first Status, which a "queryId" key of any
\* stats map overrides.
C10_StatsEqualQueryIdPlusUnion ==
    OneExecuteThenFetches =>
        stats = [k \in StatKeys \cup {"queryId"} |->
                    IF k \in StatKeys THEN UnionOfStats[k]
                    ELSE processed[1].status.id]

\* One execute and two fetches were processed, with stats maps that collide
\* on a key with different values.
C10_Witness ==
    /\ OneExecuteThenFetches
    /\ Len(processed) = 3
    /\ processed[1].status.stats["state"] # processed[2].status.stats["state"]
    /\ processed[2].status.stats["state"] # processed[3].status.stats["state"]
    /\ "nodes" \in DOMAIN stats

\* C11: after every successful fetch() the Query's warnings equal the
\* warnings batch of the Status that fetch just processed.
C11_FetchReplacesWarnings ==
    [][(IsCall("fetch") /\ last'.raised = "none") =>
           warnings' = processed'[Len(processed')].status.warnings]_vars

\* C12: once columns has been set to a non-empty value, no later fetch()
\* changes it, even when a later Status carries a different columns list.
C12_FetchKeepsKnownColumns ==
    [][(IsCall("fetch") /\ Truthy(columns)) => columns' = columns]_vars

\* C13: execute() on a fresh Query issues exactly one logical request,
\* Transport.post to the statement URL when the transport has no pre-seeded
\* continuation URI and otherwise Transport.get of that URI; after it
\* succeeds the query id equals the id of the returned Status.
C13_ExecuteIssuesOneRequest ==
    [][(processed = << >> /\ ~cancelled /\ IsCall("execute")) =>
           /\ Len(last'.sent) = 1
           /\ IF next_uri = None
              THEN /\ last'.sent[1].method = "POST"
                   /\ last'.sent[1].url =
                          Some(<< http_scheme, "://", host, ":", port,
                                  "/v1/statement" >>)
              ELSE /\ last'.sent[1].method = "GET"
                   /\ last'.sent[1].url = next_uri
           /\ last'.raised = "none" =>
                  /\ Len(processed') = 1
                  /\ query_id' = Some(processed'[1].status.id)]_vars

\* execute() succeeded on a Query whose transport was seeded with a
\* continuation URI, and assigned the id q2.
C13_Witness ==
    /\ calls = 1
    /\ last.op = "execute"
    /\ last.raised = "none"
    /\ last.sent[1].method = "GET"
    /\ last.sent[1].url = Some(U0)
    /\ query_id = Some("q2")

\* C26: cancel() on a running query sets cancelled before the DELETE is sent,
\* so cancelled is true afterwards even when the DELETE raises or returns a
\* status other than 204; and once cancelled is true, execute() raises the
\* user error without issuing any request or changing any field of the query.
C26_CancelledSetFirstAndBlocksExecute ==
    [][/\ (IsCall("cancel") /\ query_id # None /\ ~finished)
          => (cancelled' /\ Len(last'.sent) = 1)
       /\ (IsCall("execute") /\ cancelled)
          => /\ last'.raised = "PrestoUserError"
             /\ last'.sent = << >>
             /\ UNCHANGED << queryVars, next_uri, processed >>]_vars

\* execute was refused with the user error after a cancel whose DELETE had
\* not been confirmed: three calls, the query cancelled and not finished.
C26_Witness ==
    /\ calls = 3
    /\ last.op = "execute"
    /\ last.raised = "PrestoUserError"
    /\ last.sent = << >>
    /\ cancelled
    /\ ~finished
    /\ Len(processed) = 1

----------------------------------------------------------------------------
(* Properties of the transport                                             *)

\* The last transport call handed a request to the session.
IsRequest == transport.op \in {"get", "post", "delete"}

\* The session's i-th answer is a response that is neither a 503 nor a
\* redirect.
Succeeds(script, i) ==
    /\ script[i].kind = "response"
    /\ script[i].status \in 200..299

\* C14: with max_attempts = N > 1, a GET/POST/DELETE whose HTTP call fails
\* with a transient error on its first k < N attempts and then succeeds
\* completes successfully after exactly k + 1 attempts; with max_attempts = 1
\* a single transient failure propagates after exactly one attempt.
C14_RetriesTransientFailures ==
    IsRequest =>
        /\ \A k \in 0..(max_attempts - 1) :
               (/\ max_attempts > 1
                /\ \A i \in 1..k : transport.script[i] = Exception
                /\ Succeeds(transport.script, k + 1))
               => (transport.raised = "none" /\ transport.attempts = k + 1)
        /\ (max_attempts = 1 /\ transport.script[1] = Exception)
               => (transport.raised # "none" /\ transport.attempts = 1)

\* C15: a response whose status is exactly 503 is retried by the retry layer
\* and, if it still reaches process, raises the transient 503 error; a
\* response with any other non-2xx status is never retried and process
\* converts it to a fatal HTTP error instead of parsing it into a Status.
C15_Only503Retried ==
    /\ (IsRequest /\ max_attempts > 1
            /\ transport.script[1].kind = "response"
            /\ transport.script[1].status = 503)
           => transport.attempts >= 2
    /\ (IsRequest
            /\ transport.script[1].kind = "response"
            /\ transport.script[1].status \notin (200..299) \cup {503})
           => transport.attempts = 1
    /\ (transport.op = "process"
            /\ transport.response[1].status \notin 200..299)
           => transport.raised =
                  IF transport.response[1].status = 503
                  THEN "Http503Error" ELSE "HttpError"

\* The session's i-th answer is a redirect.
Redirects(script, i) ==
    /\ script[i].kind = "response"
    /\ script[i].status \in {301, 302, 303, 307, 308}
    /\ "Location" \in DOMAIN script[i].headers

\* C16: when the response to the initial POST is a redirect, post() reissues
\* the POST to the resolver's target with identical body and headers, awaits
\* that response, and returns the first non-redirect response.
C16_PostFollowsRedirect ==
    (/\ transport.op = "post"
     /\ Redirects(transport.script, 1)
     /\ transport.script[2].kind = "response"
     /\ ~Redirects(transport.script, 2))
    => /\ transport.raised = "none"
       /\ transport.response = Some(transport.script[2])
       /\ Len(transport.http) = 2
       /\ transport.http[2] =
              [method |-> "POST",
               url |-> handle(transport.script[1].headers["Location"]),
               data |-> transport.http[1].data,
               headers |-> transport.http[1].headers,
               awaited |-> TRUE]

\* The names a sequence of set-session entries assigns.
SetNames(entries) == { entries[i][1] : i \in DOMAIN entries }
\* The names of a clear-session header.
Cleared(names) == { names[i] : i \in DOMAIN names }

\* C17: when process handles a successful response carrying both a
\* clear-session and a set-session header, a property named by the set header
\* is present afterwards with the value of the set header (also when the clear
\* header names it too), a property named only by the clear header is
\* absent, and every other property is unchanged.
C17_ClearThenSet ==
    [][(/\ transport'.op = "process"
        /\ transport'.raised = "none"
        /\ HEADER_CLEAR_SESSION \in DOMAIN transport'.response[1].headers
        /\ HEADER_SET_SESSION \in DOMAIN transport'.response[1].headers)
       => LET headers == transport'.response[1].headers
              entries == headers[HEADER_SET_SESSION]
              cleared == Cleared(headers[HEADER_CLEAR_SESSION])
          IN  \A name \in (DOMAIN properties) \cup (DOMAIN properties')
                              \cup cleared \cup SetNames(entries) :
                  IF name \in SetNames(entries)
                  THEN /\ name \in DOMAIN properties'
                       /\ << name, properties'[name] >> \in
                              { entries[i] : i \in DOMAIN entries }
                  ELSE IF name \in cleared
                  THEN name \notin DOMAIN properties'
                  ELSE /\ name \in DOMAIN properties
                       /\ name \in DOMAIN properties'
                       /\ properties'[name] = properties[name]]_vars

\* process applied a response that clears p and q and sets p: p holds the
\* set value and r, named by neither header, is still there.
C17_Witness ==
    /\ transport.op = "process"
    /\ transport.raised = "none"
    /\ transport.response[1].headers = ClearPQSetP
    /\ DOMAIN properties = {"p", "r"}
    /\ properties["p"] = "2"
    /\ properties["r"] = "3"

\* C18: constructing a Transport with a caller-supplied header whose name
\* collides with a reserved header name (catalog, schema, source, user,
\* session-properties, transaction-id) raises a configuration error at
\* construction time.
C18_ReservedHeaderRejected ==
    (/\ transport.op = "__init__"
     /\ \E key \in DOMAIN client_headers :
            key \in {"X-Presto-Catalog", "X-Presto-Schema", "X-Presto-Source",
                     "X-Presto-User", "X-Presto-Session",
                     "X-Presto-Transaction-Id"})
    => /\ transport.raised = "ValueError"
       /\ session_headers = None

\* C19: when process receives a 2xx response whose body has an error field,
\* it returns no Status and raises the external error for errorType
\* EXTERNAL, the user error for USER_ERROR and the generic query error for
\* any other classification.
C19_ErrorFieldRaisesByType ==
    (/\ transport.op = "process"
     /\ transport.response[1].status \in 200..299
     /\ "error" \in DOMAIN transport.response[1].body)
    => LET errorType == transport.response[1].body["error"]["errorType"] IN
       /\ errorType = "EXTERNAL" => transport.raised = "PrestoExternalError"
       /\ errorType = "USER_ERROR" => transport.raised = "PrestoUserError"
       /\ errorType \notin {"EXTERNAL", "USER_ERROR"}
              => transport.raised = "PrestoQueryError"

\* process was given a 200 response whose error is a USER_ERROR and raised
\* the user error.
C19_Witness ==
    /\ transport.op = "process"
    /\ transport.response[1].status = 200
    /\ "error" \in DOMAIN transport.response[1].body
    /\ transport.response[1].body["error"]["errorType"] = "USER_ERROR"
    /\ transport.raised = "PrestoUserError"

\* C21: every request the transport sends (POST, GET and DELETE) carries the
\* catalog, schema, source and user headers, the serialized session
\* properties as the session map stands at the time of the request, and the
\* current transaction id.
C21_EveryRequestCarriesCurrentHeaders ==
    IsRequest =>
        \A i \in DOMAIN transport.http :
            LET sent == SentHeaders(session_headers[1], transport.http[i]) IN
            /\ {"X-Presto-Catalog", "X-Presto-Schema", "X-Presto-Source",
                "X-Presto-User", "X-Presto-Session", "X-Presto-Transaction-Id"}
                   \subseteq DOMAIN sent
            /\ sent["X-Presto-Catalog"] = "memory"
            /\ sent["X-Presto-Schema"] = "default"
            /\ sent["X-Presto-Source"] = "python test"
            /\ sent["X-Presto-User"] = "user"
            /\ sent["X-Presto-Session"] = header_session(properties)
            /\ sent["X-Presto-Transaction-Id"] = NO_TRANSACTION

\* C25: when process raises (non-2xx status or an error field in the body),
\* the transport's continuation URI and its session properties are left
\* exactly as they were before the call: session clear/set headers of an
\* erroring response are not applied and next_uri is not overwritten.
C25_ProcessRaisingLeavesTransport ==
    [][(transport'.op = "process" /\ transport'.raised # "none")
       => (properties' = properties /\ next_uri' = next_uri)]_vars

\* process raised the user error on a response whose headers clear p and q
\* and set p; the properties given at construction and the continuation URI
\* of an earlier response are still there.
C25_Witness ==
    /\ transport.op = "process"
    /\ transport.raised = "PrestoUserError"
    /\ transport.response[1].headers = ClearPQSetP
    /\ "nextUri" \notin DOMAIN transport.response[1].body
    /\ DOMAIN properties = {"p", "r"}
    /\ properties["p"] = "1"
    /\ next_uri = Some(U1)

----------------------------------------------------------------------------
(* Properties of PrestoResult                                              *)

\* The rows of the Status values processed so far, in the order the server
\* delivered them.
RECURSIVE RowsDelivered(_)
RowsDelivered(n) ==
    IF n = 0 THEN << >> ELSE RowsDelivered(n - 1) \o processed[n].status.rows

\* C20: iterating a PrestoResult yields first every row buffered from execute,
\* then the rows of each successive fetch, in server-delivered order with no
\* row dropped or duplicated; it calls fetch only while the query is not
\* finished and only after the previous page's rows were all yielded, and the
\* sequence ends exactly when the query is finished and all rows have been
\* yielded.
C20_IteratorYieldsPagesInOrder ==
    /\ [](gen.pc # "none" =>
              yielded \o SubSeq(gen.rows, gen.taken + 1, Len(gen.rows))
                  = RowsDelivered(Len(processed)))
    /\ [][(gen.pc # "none" /\ IsCall("fetch")) =>
              (~finished /\ yielded = RowsDelivered(Len(processed)))]_vars
    /\ [](gen.pc = "done" =>
              (finished /\ yielded = RowsDelivered(Len(processed))))
    /\ [][(/\ gen.pc \in {"initial", "pages"}
           /\ finished
           /\ yielded = RowsDelivered(Len(processed))
           /\ gen' # gen)
          => gen'.pc = "done"]_vars

\* The generator has returned after yielding the row of execute, the two
\* rows of the first fetch and the row of the second fetch.
C20_Witness ==
    /\ gen.pc = "done"
    /\ Len(processed) = 3
    /\ processed[1].op = "execute"
    /\ processed[1].status.rows = << "r1" >>
    /\ yielded = << "r1", "r2", "r3", "r4" >>
    /\ _rownumber = 4

----------------------------------------------------------------------------
(* Properties of map_to_python_type                                        *)

\* The value, the column type and the outcome of the last decoder call.
DecodedValue == item[1][1]
DecodedSignature == item[1][2]["typeSignature"]
DecodedOutcome == decoded[1]

\* C22: for every value that fails to parse against its declared type (each
\* of decimal, date, timestamp, timestamp with time zone, time, time with time
\* zone), the decoder raises the decode error whose message names the
\* offending value and the declared type; no other error kind escapes and no
\* value is returned.
C22_ParseFailureRaisesDecodeError ==
    (/\ item # None
     /\ DecodedValue.kind = "str"
     /\ DecodedSignature.rawType \in
            {"decimal", "date", "timestamp", "timestamp with time zone",
             "time", "time with time zone"})
    => /\ DecodedValue.chars = << "a", "b", "c" >> => DecodedOutcome.kind = "raise"
       /\ DecodedOutcome.kind = "raise" =>
              DecodedOutcome = [kind |-> "raise", exc |-> "TypeError",
                          message |-> [value |-> DecodedValue,
                                       raw_type |-> DecodedSignature.rawType]]

\* C23: decoding a list value under array<T> yields a sequence of the same
\* length and order whose i-th element is decode(value[i], T); decoding a
\* list value under row(T1..Tn) yields an ordered tuple whose i-th element is
\* decode(value[i], Ti); null elements decode to null.
C23_ArrayAndRowDecodeElementwise ==
    (/\ item # None
     /\ DecodedValue.kind = "list"
     /\ DecodedSignature.rawType \in {"array", "row"})
    => LET items == DecodedValue.items
           arguments == DecodedSignature.arguments
           types == IF DecodedSignature.rawType = "array"
                    THEN [i \in DOMAIN items |->
                             [typeSignature |-> arguments[1].value]]
                    ELSE [i \in DOMAIN arguments |->
                             [typeSignature |-> arguments[i].value.typeSignature]]
       IN  (/\ Len(types) = Len(items)
            /\ \A i \in DOMAIN items :
                   map_to_python_type(items[i], types[i]).kind = "return")
           => /\ DecodedOutcome.kind = "return"
              /\ DecodedOutcome.value.kind =
                     IF DecodedSignature.rawType = "array" THEN "list" ELSE "tuple"
              /\ Len(DecodedOutcome.value.items) = Len(items)
              /\ \A i \in DOMAIN items :
                     /\ DecodedOutcome.value.items[i] =
                            map_to_python_type(items[i], types[i]).value
                     /\ items[i].kind = "None" =>
                            DecodedOutcome.value.items[i].kind = "None"

\* A row of a date, a decimal and a null was decoded to the tuple of the
\* date, the Decimal and None.
C23_Witness ==
    /\ item = Some(<< List(<< Str(<< "2", "0", "2", "4", "-", "0", "1", "-", "0", "2" >>),
                              Str(<< "1", ".", "5", "0" >>),
                              Null >>),
                      DataType(RowOf(<< Scalar("date"), Scalar("decimal"),
                                        Scalar("time") >>)) >>)
    /\ decoded = Some(Return(PyTuple(<<
           [kind |-> "date", year |-> 2024, month |-> 1, day |-> 2],
           [kind |-> "Decimal", sign |-> "+", coefficient |-> 150,
            exponent |-> 0 - 2],
           Null >>)))

----------------------------------------------------------------------------
(* Properties of the async context manager                                 *)

\* C24: when a transport that created its own HTTP session is used in an
\* async with block, the session's connection resources are closed and the
\* session reference is dropped on every exit path of the block, whether the
\* body returns normally or raises.
C24_ScopeExitClosesOwnSession ==
    (scope \in {"returned", "raised"} /\ _close_session)
    => (connector_closed /\ _http_session = None)

\* The body made a GET that raised, the block was left by the exception, and
\* the transport's own session is closed and dropped.
C24_Witness ==
    /\ scope = "raised"
    /\ _close_session
    /\ transport.op = "get"
    /\ transport.raised = "HttpException"
    /\ connector_closed
    /\ _http_session = None

====
